---- MODULE Spec2Model ----
(***************************************************************************)
(* Model of src/Dashboard.py: one Streamlit script run is a straight line  *)
(* load_data -> KPI row -> sidebar widgets -> filter block -> empty guard  *)
(* -> series preparation -> tabs.  Every user interaction reruns the       *)
(* script from the top.  pct_change, the one function the script defines,  *)
(* is also checked on its own over arbitrary short series.                 *)
(*                                                                         *)
(* Scope: the tables carry the optional columns season, area,              *)
(* vehicle_count and accident_count without missing values, so the         *)
(* script's `"col" in df.columns` tests on them are true; the required     *)
(* date_time column may be absent or hold unparseable text.  Time is in    *)
(* whole seconds; day 0 is Sunday 2023-12-31, so day 1 is 2024-01-01.      *)
(***************************************************************************)
EXTENDS Integers, Sequences, FiniteSets, TLC

\* ---------------------------------------------------------------- bounds
MaxRows == 2          \* rows in the CSV file
MaxDay == 2           \* days 0..MaxDay carry observations
MaxAccident == 1      \* accident_count of a row is in 0..MaxAccident
MaxAreaOptions == 1   \* entries of AREA_OPTIONS offered besides "All"
MaxLen == 3           \* length of a series handed to pct_change on its own
MaxVal == 2           \* values of such a series are in 0..MaxVal
MaxShift == 3         \* shift handed to pct_change on its own is in 1..MaxShift

\* ------------------------------------------------------- program constants
DaySeconds == 86400   \* pd.Timedelta(days=1), in units of pd.Timedelta(seconds=1)

AREA_OPTIONS ==
  <<"Westminster", "Kensington", "Islington", "Camden", "Greenwich", "Chelsea", "Southwark">>

None == "None"       \* a name the run has not bound yet
NaT == -1             \* the missing timestamp; real timestamps are >= 0
Bad == <<>>           \* date_time text holding no date

VARIABLES
  file,             \* the CSV on disk: [columns, rows]
  pc,               \* position of the script run
  df,               \* the loaded table
  total_vehicles,   \* KPI scalar shown in the KPI row
  total_accidents,  \* KPI scalar shown in the KPI row
  season,           \* seasons whose checkbox is ticked
  area,             \* value of the area selectbox
  dt_range,         \* value of the date_input: <<first day, last day>>
  agg,              \* value of the aggregation selectbox
  acc_threshold,    \* value of the accident slider
  df_f,             \* the filtered view
  vehicle_daily,    \* daily vehicle series
  vehicle_agg,      \* vehicle series at the chosen granularity
  delta_period,     \* shift chosen for the percent change
  rendered,         \* what the run has put on the page
  deltas,           \* percent changes the run has computed, by series name
  arg_s,            \* pct_change checked on its own: the series
  arg_shift,        \* pct_change checked on its own: the shift
  ret               \* pct_change checked on its own: the returned value

vars ==
  <<file, pc, df, total_vehicles, total_accidents, season, area, dt_range, agg,
    acc_threshold, df_f, vehicle_daily, vehicle_agg, delta_period, rendered,
    deltas, arg_s, arg_shift, ret>>

\* ------------------------------------------------------------- helpers
RECURSIVE SumSeq(_)
SumSeq(q) == IF q = <<>> THEN 0 ELSE Head(q) + SumSeq(Tail(q))

SetMin(S) == CHOOSE x \in S : \A y \in S : x <= y
SetMax(S) == CHOOSE x \in S : \A y \in S : x >= y

Abs(n) == IF n < 0 THEN -n ELSE n

RECURSIVE Gcd(_, _)
Gcd(a, b) == IF b = 0 THEN a ELSE Gcd(b, a % b)

\* a float result, kept exact as a fraction in lowest terms; a division by 0 gives
\* den = 0 (inf for num = 1, -inf for num = -1, nan for num = 0)
Float(n, d) ==
  IF d = 0 THEN [num |-> IF n > 0 THEN 1 ELSE IF n < 0 THEN -1 ELSE 0, den |-> 0]
  ELSE LET g == Gcd(Abs(n), Abs(d))
           sgn == IF d < 0 THEN -1 ELSE 1
       IN  [num |-> sgn * (n \div g), den |-> sgn * (d \div g)]

\* the outcome of a call: a returned float or a raised exception
Return(v) == [raised |-> "None", value |-> v]
Raise(e) == [raised |-> e, value |-> Float(0, 1)]

Column(d, c) == [i \in 1..Len(d) |-> d[i][c]]

\* nondecreasing index sequences: one table per multiset of rows
Multisets(n, N) == {s \in [1..n -> 1..N] : \A i \in 1..(n - 1) : s[i] <= s[i + 1]}

\* ------------------------------------------------------- the CSV on disk
SecondsOfDay == <<0, DaySeconds - 1>>         \* 00:00:00 and 23:59:59

\* raw date_time text: <<day, second of day>> stands for "YYYY-MM-DD hh:mm:ss"
RawTimeSeq ==
  [k \in 1..(2 * (MaxDay + 1)) |-> <<(k - 1) \div 2, SecondsOfDay[((k - 1) % 2) + 1]>>]
  \o <<Bad>>

\* rows that vary the timestamp
TimeRowSeq ==
  [k \in 1..Len(RawTimeSeq) |->
     [date_time |-> RawTimeSeq[k], season |-> "Winter", area |-> AREA_OPTIONS[1],
      vehicle_count |-> 2, accident_count |-> 0]]

SeasonSeq == <<"Summer", "Winter">>
AreaSeq == <<AREA_OPTIONS[1], "areaA">>      \* one listed area, one unlisted

\* rows that vary the categorical fields and the accident count
FilterRowSeq ==
  [k \in 1..(4 * (MaxAccident + 1)) |->
     [date_time |-> <<0, 0>>, season |-> SeasonSeq[((k - 1) % 2) + 1],
      area |-> AreaSeq[(((k - 1) \div 2) % 2) + 1],
      vehicle_count |-> 1, accident_count |-> (k - 1) \div 4]]

RowSeq == TimeRowSeq \o FilterRowSeq

OptionalColumns == {"season", "area", "vehicle_count", "accident_count"}
AllColumns == OptionalColumns \cup {"date_time"}

WithoutDateTime(r) == [c \in OptionalColumns |-> r[c]]

Files ==
  {[columns |-> AllColumns, rows |-> [i \in 1..Len(s) |-> RowSeq[s[i]]]] :
     s \in UNION {Multisets(n, Len(RowSeq)) : n \in 1..MaxRows}}
  \cup
  {[columns |-> OptionalColumns, rows |-> <<WithoutDateTime(FilterRowSeq[k])>>] :
     k \in 1..Len(FilterRowSeq)}

\* ------------------------------------------------------------- load_data
\* pd.to_datetime(..., errors="coerce"): text that does not parse becomes NaT
to_datetime(raw) == IF raw = Bad THEN NaT ELSE raw[1] * DaySeconds + raw[2]

load_data(f) ==
  IF "date_time" \in f.columns
  THEN [ok |-> TRUE,
        df |-> [i \in 1..Len(f.rows) |->
                  [index |-> i - 1,
                   date_time |-> to_datetime(f.rows[i].date_time),
                   season |-> f.rows[i].season,
                   area |-> f.rows[i].area,
                   vehicle_count |-> f.rows[i].vehicle_count,
                   accident_count |-> f.rows[i].accident_count]]]
  ELSE [ok |-> FALSE, error |-> "Missing required column: date_time"]

Timestamps(d) == {d[i].date_time : i \in 1..Len(d)} \ {NaT}
DayOf(ts) == ts \div DaySeconds

\* the model starts from files with at least one parseable timestamp, or without
\* the column: min_dt.date() of a table whose timestamps are all NaT is not modelled
Loadable(f) ==
  "date_time" \in f.columns => \E i \in 1..Len(f.rows) : f.rows[i].date_time # Bad

\* ------------------------------------------------------------ the widgets
seasons_list(d) == {d[i].season : i \in 1..Len(d)}

AreaChoices == {"All"} \cup {AREA_OPTIONS[k] : k \in 1..MaxAreaOptions}

\* date_input: a pair of days, first <= last, within the days of the data
DateChoices(d) ==
  LET lo == DayOf(SetMin(Timestamps(d)))
      hi == DayOf(SetMax(Timestamps(d)))
  IN  {p \in (lo..hi) \X (lo..hi) : p[1] <= p[2]}

AggChoices == {"Daily", "Weekly", "Monthly"}

\* st.slider(min_acc, max_acc, min_acc)
ThresholdChoices(d) ==
  SetMin({d[i].accident_count : i \in 1..Len(d)}) ..
  SetMax({d[i].accident_count : i \in 1..Len(d)})

\* ------------------------------------------------------- the filter block
SeasonFilter(d, sel) ==
  IF sel # {} THEN SelectSeq(d, LAMBDA r : r.season \in sel) ELSE d

\* the area mask inverted
AreaFilterNotEqual(d, a) ==
  IF a # "All" THEN SelectSeq(d, LAMBDA r : r.area # a) ELSE d

AreaFilter(d, a) ==
  IF a # "All" THEN SelectSeq(d, LAMBDA r : r.area = a) ELSE d

\* the threshold taken as an offset from the smallest count of the table at hand
AccidentFilterAboveMin(d, thr) ==
  SelectSeq(d, LAMBDA r :
    r.accident_count >= thr + SetMin({d[i].accident_count : i \in 1..Len(d)}))

AccidentFilter(d, thr) == SelectSeq(d, LAMBDA r : r.accident_count >= thr)

RangeStart(rng) == rng[1] * DaySeconds
\* the end of the range without the second taken off
RangeEndNextMidnight(rng) == rng[2] * DaySeconds + DaySeconds

RangeEnd(rng) == rng[2] * DaySeconds + DaySeconds - 1

\* a comparison with NaT is False
DateFilter(d, rng) ==
  SelectSeq(d, LAMBDA r : r.date_time # NaT /\ r.date_time >= RangeStart(rng)
                          /\ r.date_time <= RangeEnd(rng))

ApplyFilters(d, sel, a, thr, rng) ==
  DateFilter(AccidentFilter(AreaFilter(SeasonFilter(d, sel), a), thr), rng)

\* a guard that never fires
EmptyNever(d) == Len(d) < 0

Empty(d) == Len(d) = 0

\* ------------------------------------------------- series and resampling
\* a series is a sequence of [t |-> period label, v |-> value], by ascending t

\* day 0 is a Sunday: the weekly bin of a day is labelled by its closing Sunday
WeekEnd(d) == d + ((7 - (d % 7)) % 7)

\* last days of the months from December 2023 to December 2024
MonthEnds == <<0, 31, 60, 91, 121, 152, 182, 213, 244, 274, 305, 335, 366>>

MonthEnd(d) == SetMin({MonthEnds[k] : k \in 1..Len(MonthEnds)} \cap (d..MonthEnds[Len(MonthEnds)]))

\* the days without rows left out instead of carrying 0
DailySumNoFill(d, col) ==
  IF d = <<>> THEN <<>>
  ELSE LET days == {DayOf(d[i].date_time) : i \in 1..Len(d)}
           lo == SetMin(days)
           hi == SetMax(days)
           rowsOf(day) == SelectSeq(d, LAMBDA r : DayOf(r.date_time) = day)
       IN  SelectSeq([k \in 1..(hi - lo + 1) |->
                        [t |-> lo + k - 1, v |-> SumSeq(Column(rowsOf(lo + k - 1), col))]],
                     LAMBDA e : e.t \in days)

\* the last day left out of the daily range
DailySumOpenEnd(d, col) ==
  IF d = <<>> THEN <<>>
  ELSE LET days == {DayOf(d[i].date_time) : i \in 1..Len(d)}
           lo == SetMin(days)
           hi == SetMax(days)
           rowsOf(day) == SelectSeq(d, LAMBDA r : DayOf(r.date_time) = day)
       IN  [k \in 1..(hi - lo) |->
              [t |-> lo + k - 1, v |-> SumSeq(Column(rowsOf(lo + k - 1), col))]]

\* df_f.set_index("date_time").sort_index()[col].resample("D").sum().fillna(0)
DailySum(d, col) ==
  IF d = <<>> THEN <<>>
  ELSE LET days == {DayOf(d[i].date_time) : i \in 1..Len(d)}
           lo == SetMin(days)
           hi == SetMax(days)
           rowsOf(day) == SelectSeq(d, LAMBDA r : DayOf(r.date_time) = day)
       IN  [k \in 1..(hi - lo + 1) |->
              [t |-> lo + k - 1, v |-> SumSeq(Column(rowsOf(lo + k - 1), col))]]

\* a set of integers as an ascending sequence
RECURSIVE Ascending(_)
Ascending(S) == IF S = {} THEN <<>> ELSE <<SetMin(S)>> \o Ascending(S \ {SetMin(S)})

\* the bin of a day under the rule "W" (weeks closing on Sunday) or "M" (months)
Bin(rule, day) == IF rule = "W" THEN WeekEnd(day) ELSE MonthEnd(day)

\* s.resample(rule).sum(): one entry per bin between the first and the last one
Resample(s, rule) ==
  IF s = <<>> THEN s
  ELSE LET labels == Ascending({Bin(rule, day) : day \in s[1].t .. s[Len(s)].t})
           within(b) == SelectSeq(s, LAMBDA e : Bin(rule, e.t) = b)
       IN  [k \in 1..Len(labels) |->
              [t |-> labels[k], v |-> SumSeq(Column(within(labels[k]), "v"))]]

vehicle_agg_of(daily, g) ==
  IF g = "Daily" THEN daily
  ELSE IF g = "Weekly" THEN Resample(daily, "W")
  ELSE Resample(daily, "M")

\* the daily shift forgotten
delta_period_ofOne(g) == 1

delta_period_of(g) == IF g = "Daily" THEN 7 ELSE 1

\* ------------------------------------------------------------ pct_change
\* s.iloc[i] for a negative i: the position counted from 1, 0 when out of range
iloc(s, i) == IF Len(s) + i + 1 \in 1..Len(s) THEN Len(s) + i + 1 ELSE 0

\* the length test off by one
pct_changeShortByOne(s, shift) ==
  IF Len(s) < shift THEN Return(Float(0, 1))
  ELSE IF iloc(s, -1) = 0 \/ iloc(s, -1 - shift) = 0 THEN Raise("IndexError")
  ELSE LET curr == s[iloc(s, -1)].v
           prev == s[iloc(s, -1 - shift)].v
       IN  IF prev = 0 THEN Return(Float(0, 1))
           ELSE Return(Float((curr - prev) * 100, prev))

pct_change(s, shift) ==
  IF Len(s) <= shift THEN Return(Float(0, 1))
  ELSE IF iloc(s, -1) = 0 \/ iloc(s, -1 - shift) = 0 THEN Raise("IndexError")
  ELSE LET curr == s[iloc(s, -1)].v
           prev == s[iloc(s, -1 - shift)].v
       IN  IF prev = 0 THEN Return(Float(0, 1))
           ELSE Return(Float((curr - prev) * 100, prev))

\* ------------------------------------------------------------ one script run
Fresh ==
  /\ pc = "start"
  /\ df = <<>>
  /\ total_vehicles = 0
  /\ total_accidents = 0
  /\ season = {}
  /\ area = None
  /\ dt_range = <<>>
  /\ agg = None
  /\ acc_threshold = 0
  /\ df_f = <<>>
  /\ vehicle_daily = <<>>
  /\ vehicle_agg = <<>>
  /\ delta_period = 0
  /\ rendered = {}
  /\ deltas = <<>>

NoCall == arg_s = <<>> /\ arg_shift = 0 /\ ret = Return(Float(0, 1))

Init == file \in {f \in Files : Loadable(f)} /\ Fresh /\ NoCall

\* df = load_data() returned
LoadData ==
  /\ pc = "start"
  /\ load_data(file).ok
  /\ df' = load_data(file).df
  /\ pc' = "loaded"
  /\ UNCHANGED <<file, total_vehicles, total_accidents, season, area, dt_range, agg,
                 acc_threshold, df_f, vehicle_daily, vehicle_agg, delta_period, rendered,
                 deltas, arg_s, arg_shift, ret>>

\* load_data() raised: st.error(...), st.stop()
LoadFailed ==
  /\ pc = "start"
  /\ ~load_data(file).ok
  /\ rendered' = rendered \cup {"error"}
  /\ pc' = "halted"
  /\ UNCHANGED <<file, df, total_vehicles, total_accidents, season, area, dt_range, agg,
                 acc_threshold, df_f, vehicle_daily, vehicle_agg, delta_period,
                 deltas, arg_s, arg_shift, ret>>

\* the metrics and the KPI row
ShowKPIs ==
  /\ pc = "loaded"
  /\ total_vehicles' = SumSeq(Column(df, "vehicle_count"))
  /\ total_accidents' = SumSeq(Column(df, "accident_count"))
  /\ rendered' = rendered \cup {"kpi_row"}
  /\ pc' = "kpi"
  /\ UNCHANGED <<file, df, season, area, dt_range, agg, acc_threshold, df_f,
                 vehicle_daily, vehicle_agg, delta_period, deltas, arg_s, arg_shift, ret>>

\* the sidebar: the user's widget values are the inputs of the run
ReadSidebar ==
  /\ pc = "kpi"
  /\ season' \in SUBSET seasons_list(df)
  /\ area' \in AreaChoices
  /\ dt_range' \in DateChoices(df)
  /\ agg' \in AggChoices
  /\ acc_threshold' \in ThresholdChoices(df)
  /\ pc' = "sidebar"
  /\ UNCHANGED <<file, df, total_vehicles, total_accidents, df_f, vehicle_daily,
                 vehicle_agg, delta_period, rendered, deltas, arg_s, arg_shift, ret>>

\* the filter block
FilterBlock ==
  /\ pc = "sidebar"
  /\ df_f' = ApplyFilters(df, season, area, acc_threshold, dt_range)
  /\ pc' = "filtered"
  /\ UNCHANGED <<file, df, total_vehicles, total_accidents, season, area, dt_range, agg,
                 acc_threshold, vehicle_daily, vehicle_agg, delta_period, rendered,
                 deltas, arg_s, arg_shift, ret>>

\* the empty guard fires: st.warning(...), st.stop()
EmptyGuard ==
  /\ pc = "filtered"
  /\ Empty(df_f)
  /\ rendered' = rendered \cup {"warning"}
  /\ pc' = "stopped"
  /\ UNCHANGED <<file, df, total_vehicles, total_accidents, season, area, dt_range, agg,
                 acc_threshold, df_f, vehicle_daily, vehicle_agg, delta_period,
                 deltas, arg_s, arg_shift, ret>>

\* the empty guard passes: the series and aggregations are prepared
PrepareSeries ==
  /\ pc = "filtered"
  /\ ~Empty(df_f)
  /\ vehicle_daily' = DailySum(df_f, "vehicle_count")
  /\ vehicle_agg' = vehicle_agg_of(DailySum(df_f, "vehicle_count"), agg)
  /\ delta_period' = delta_period_of(agg)
  /\ pc' = "aggregated"
  /\ UNCHANGED <<file, df, total_vehicles, total_accidents, season, area, dt_range, agg,
                 acc_threshold, df_f, rendered, deltas, arg_s, arg_shift, ret>>

\* the tabs: charts, the filtered-data export and the quick insights; nothing in
\* them calls pct_change or reads delta_period.  Tab 2 rebinds df_f to a copy with
\* the derived columns hour and weekday added; the rows and their original
\* columns stay as they are, and the model does not carry the two columns.
RenderTabs ==
  /\ pc = "aggregated"
  /\ rendered' = rendered \cup {"charts", "export", "insights"}
  /\ pc' = "done"
  /\ UNCHANGED <<file, df, total_vehicles, total_accidents, season, area, dt_range, agg,
                 acc_threshold, df_f, vehicle_daily, vehicle_agg, delta_period,
                 deltas, arg_s, arg_shift, ret>>

\* an interaction reruns the script from the top
Rerun ==
  /\ pc \in {"halted", "stopped", "done"}
  /\ pc' = "start"
  /\ df' = <<>>
  /\ total_vehicles' = 0
  /\ total_accidents' = 0
  /\ season' = {}
  /\ area' = None
  /\ dt_range' = <<>>
  /\ agg' = None
  /\ acc_threshold' = 0
  /\ df_f' = <<>>
  /\ vehicle_daily' = <<>>
  /\ vehicle_agg' = <<>>
  /\ delta_period' = 0
  /\ rendered' = {}
  /\ deltas' = <<>>
  /\ UNCHANGED <<file, arg_s, arg_shift, ret>>

Next ==
  \/ LoadData
  \/ LoadFailed
  \/ ShowKPIs
  \/ ReadSidebar
  \/ FilterBlock
  \/ EmptyGuard
  \/ PrepareSeries
  \/ RenderTabs
  \/ Rerun

Spec == Init /\ [][Next]_vars

\* ------------------------------------------------- pct_change on its own
Values == 0..MaxVal

SeriesOf(q) == [k \in 1..Len(q) |-> [t |-> k, v |-> q[k]]]

ShortSeries == {SeriesOf(q) : q \in UNION {[1..n -> Values] : n \in 0..MaxLen}}

InitPct ==
  /\ file = [columns |-> AllColumns, rows |-> <<>>]
  /\ Fresh
  /\ arg_s \in ShortSeries
  /\ arg_shift \in 1..MaxShift
  /\ ret = Return(Float(0, 1))

CallPctChange ==
  /\ pc = "start"
  /\ ret' = pct_change(arg_s, arg_shift)
  /\ pc' = "returned"
  /\ UNCHANGED <<file, df, total_vehicles, total_accidents, season, area, dt_range, agg,
                 acc_threshold, df_f, vehicle_daily, vehicle_agg, delta_period, rendered,
                 deltas, arg_s, arg_shift>>

NextPct == CallPctChange

SpecPct == InitPct /\ [][NextPct]_vars

\* ------------------------------------------------- the two scenario tables
ObservationRow(day, a, vehicles, accidents) ==
  [date_time |-> <<day, 0>>, season |-> "Winter", area |-> a,
   vehicle_count |-> vehicles, accident_count |-> accidents]

\* (2024-01-01, areaA, vehicles=10, accidents=2), (2024-01-08, areaA, vehicles=20, accidents=0)
TwoMondays ==
  [columns |-> AllColumns,
   rows |-> <<ObservationRow(1, "areaA", 10, 2), ObservationRow(8, "areaA", 20, 0)>>]

\* per-area vehicle_count sums {A:100, B:80, C:50}
ThreeAreas ==
  [columns |-> AllColumns,
   rows |-> <<ObservationRow(1, "A", 100, 0), ObservationRow(1, "B", 80, 0),
              ObservationRow(1, "C", 50, 0)>>]

InitScenario == file \in {TwoMondays, ThreeAreas} /\ Fresh /\ NoCall

NextScenario ==
  \/ LoadData
  \/ ShowKPIs
  \/ ReadSidebar
  \/ FilterBlock
  \/ EmptyGuard
  \/ PrepareSeries
  \/ RenderTabs
  \/ Rerun

SpecScenario == InitScenario /\ [][NextScenario]_vars

\* ================================================================ claims
AfterFilter == {"filtered", "stopped", "aggregated", "done"}

Retained(r) == \E i \in 1..Len(df_f) : df_f[i] = r

PassesSeason(r) == season = {} \/ r.season \in season
PassesArea(r) == area = "All" \/ r.area = area
PassesAccident(r) == r.accident_count >= acc_threshold
StartOfFirstDay == dt_range[1] * DaySeconds
LastSecondOfLastDay == dt_range[2] * DaySeconds + DaySeconds - 1

\* C1: the filtered view holds only rows of the loaded table, each once, unaltered
\* and in the table's order, and every retained row satisfies every active
\* predicate: its season is ticked (when any season is ticked), its area is the
\* selected one (when one other than "All" is selected), its accident_count is at
\* least the threshold and its date_time lies in the date range.
C1_FilteredRowsAreLoadedRowsPassingAll ==
  pc \in AfterFilter =>
    /\ \A i \in 1..Len(df_f) : \E j \in 1..Len(df) : df_f[i] = df[j]
    /\ \A i \in 1..Len(df_f) : \A k \in 1..Len(df_f) :
         i < k => df_f[i].index < df_f[k].index
    /\ \A i \in 1..Len(df_f) :
         /\ season # {} => df_f[i].season \in season
         /\ area # "All" => df_f[i].area = area
         /\ df_f[i].accident_count >= acc_threshold
         /\ df_f[i].date_time # NaT
         /\ df_f[i].date_time >= StartOfFirstDay
         /\ df_f[i].date_time <= LastSecondOfLastDay

\* a run in which the area filter removed one of two rows and kept the other
C1_Witness ==
  /\ pc = "done"
  /\ area # "All"
  /\ season # {}
  /\ Len(df) = 2
  /\ Len(df_f) = 1
  /\ df[1].area # df[2].area

\* C2: when the filters leave zero rows the run shows the warning and stops: no
\* series, no shift, no percent change, no chart, export or insight follows.
C2_EmptyViewStopsTheRun ==
  (pc \in AfterFilter /\ Len(df_f) = 0) =>
    /\ pc \in {"filtered", "stopped"}
    /\ rendered \cap {"charts", "export", "insights", "error"} = {}
    /\ vehicle_daily = <<>> /\ vehicle_agg = <<>> /\ delta_period = 0
    /\ deltas = <<>>
    /\ pc = "stopped" => "warning" \in rendered
    /\ pc = "filtered" => ENABLED EmptyGuard /\ ~ENABLED PrepareSeries

C2_Witness == pc = "stopped" /\ Len(df) = 2 /\ Len(df_f) = 0 /\ "warning" \in rendered

\* C3: with every season checkbox unticked the run is blocked: it never reaches
\* the aggregation or the charts.
C3_EmptySelectionBlocks ==
  (pc \in AfterFilter /\ season = {}) => pc \notin {"aggregated", "done"}

\* C4: the KPI totals are the sums over exactly the rows that pass the filters.
C4_TotalsOverFilteredView ==
  pc \in AfterFilter =>
    /\ total_vehicles = SumSeq([i \in 1..Len(df_f) |-> df_f[i].vehicle_count])
    /\ total_accidents = SumSeq([i \in 1..Len(df_f) |-> df_f[i].accident_count])

\* C5: pct_change returns for every series (the empty one included) and every
\* shift >= 1: it raises nothing, divides by no zero, and returns exactly 0.0
\* when the series has fewer than shift+1 points or the value shift periods
\* before the last one is 0.
C5_PctChangeAlwaysDefined ==
  pc = "returned" =>
    /\ ret.raised = "None"
    /\ ret.value.den > 0
    /\ (Len(arg_s) < arg_shift + 1 \/ arg_s[Len(arg_s) - arg_shift].v = 0)
         => ret.value = [num |-> 0, den |-> 1]

\* a call on a series long enough whose earlier value is 0 and whose last is not
C5_Witness ==
  /\ pc = "returned"
  /\ Len(arg_s) >= arg_shift + 1
  /\ arg_s[Len(arg_s) - arg_shift].v = 0
  /\ arg_s[Len(arg_s)].v > 0

\* C6: the run produces a percent change for the vehicle series and for the
\* accident series of the filtered view, with shift 7 for Daily and 1 for Weekly
\* and Monthly; on a series with at least shift+1 points whose value shift periods
\* before the last is non-zero it equals (curr - prev) / prev * 100.
C6_Shift == IF agg = "Daily" THEN 7 ELSE 1

C6_Delta(name, s) ==
  /\ name \in DOMAIN deltas
  /\ (Len(s) >= C6_Shift + 1 /\ s[Len(s) - C6_Shift].v # 0) =>
       deltas[name] =
         Float((s[Len(s)].v - s[Len(s) - C6_Shift].v) * 100, s[Len(s) - C6_Shift].v)

C6_DeltasProducedForBothSeries ==
  pc = "done" =>
    /\ C6_Delta("vehicle", vehicle_agg_of(DailySum(df_f, "vehicle_count"), agg))
    /\ C6_Delta("accident", vehicle_agg_of(DailySum(df_f, "accident_count"), agg))

\* C7 as amended: on the two-row table, no row removed, Daily: pct_change of the
\* vehicle series with the run's shift (7) is 100.0, and pct_change of the daily
\* accident_count sums with that shift is -100.0 (prev = 2, curr = 0).
C7_Scenario == file = TwoMondays /\ pc \in {"aggregated", "done"} /\ Len(df_f) = 2 /\ agg = "Daily"

C7_TwoMondaysDeltas ==
  C7_Scenario =>
    /\ delta_period = 7
    /\ pct_change(vehicle_agg, delta_period) = Return([num |-> 100, den |-> 1])
    /\ pct_change(DailySum(df_f, "accident_count"), delta_period) = Return([num |-> -100, den |-> 1])

C7_Witness == C7_Scenario /\ pc = "done" /\ Len(vehicle_agg) = 8

\* C7 as stated: vehicle_pct_change == 100.0 and accident_pct_change == 0.0
C7_AsStated ==
  C7_Scenario =>
    /\ pct_change(vehicle_agg, delta_period) = Return([num |-> 100, den |-> 1])
    /\ pct_change(DailySum(df_f, "accident_count"), delta_period) = Return([num |-> 0, den |-> 1])

\* C8: the date range is inclusive on both ends at day granularity: a row that
\* passes the other filters and is timestamped 00:00:00 on the first day or
\* 23:59:59 on the last day is retained; a row timestamped 00:00:00 on the day
\* after the last day, or at any instant before 00:00:00 of the first day, is
\* removed.
C8_DateRangeInclusiveBothEnds ==
  pc \in AfterFilter =>
    \A j \in 1..Len(df) :
      /\ ( /\ PassesSeason(df[j]) /\ PassesArea(df[j]) /\ PassesAccident(df[j])
           /\ df[j].date_time \in {StartOfFirstDay, LastSecondOfLastDay} )
         => Retained(df[j])
      /\ ( /\ df[j].date_time # NaT
           /\ \/ df[j].date_time = (dt_range[2] + 1) * DaySeconds
              \/ df[j].date_time < StartOfFirstDay )
         => ~Retained(df[j])

\* a row at 23:59:59 on the last day kept, one at 00:00:00 the next day removed
C8_Witness ==
  /\ pc = "done"
  /\ \E j \in 1..Len(df) : df[j].date_time = LastSecondOfLastDay /\ Retained(df[j])
  /\ \E j \in 1..Len(df) : df[j].date_time = (dt_range[2] + 1) * DaySeconds /\ ~Retained(df[j])

\* C9: a file without the date_time column, or with a value in it that does not
\* parse, fails the load: the error is shown and the run halts before the KPI
\* row; no table with a missing timestamp is ever loaded.
HasUnparsedTimestamp ==
  "date_time" \in file.columns /\ \E i \in 1..Len(file.rows) : file.rows[i].date_time = Bad

C9_LoadAllOrNothing ==
  ("date_time" \notin file.columns \/ HasUnparsedTimestamp) =>
    /\ pc \in {"start", "halted"}
    /\ pc = "halted" => "error" \in rendered
    /\ df = <<>>

\* C10: the filter pipeline has a Top-N-areas step; with N = 2 on the table whose
\* per-area vehicle_count sums are {A:100, B:80, C:50} the rows retained are
\* exactly those of areas A and B.
C10_TopTwoAreasRetained ==
  (file = ThreeAreas /\ pc \in AfterFilter /\ Len(df_f) > 0) =>
    {df_f[i].area : i \in 1..Len(df_f)} = {"A", "B"}

\* C11: filtering is idempotent and deterministic: the filter block applied with
\* the same widget values to the filtered view gives that view again, and the
\* view is the filter block's result on the loaded file and the widget values
\* alone, whatever runs came before.
C11_FilterIdempotentAndDetermined ==
  pc \in AfterFilter =>
    /\ ApplyFilters(df_f, season, area, acc_threshold, dt_range) = df_f
    /\ df_f = ApplyFilters(load_data(file).df, season, area, acc_threshold, dt_range)

\* a view that lost a row to a raised accident threshold and kept another
C11_Witness ==
  /\ pc = "done"
  /\ Len(df) = 2
  /\ Len(df_f) = 1
  /\ acc_threshold > 0
  /\ \E j \in 1..Len(df) : df[j].accident_count < acc_threshold

\* C12: for a non-empty filtered view and each granularity the aggregated
\* vehicle series is non-empty with strictly ascending periods (so none twice),
\* and the daily series has exactly one entry for every calendar day from the
\* earliest to the latest filtered row, a day without rows carrying 0.
FilteredDays == {df_f[i].date_time \div DaySeconds : i \in 1..Len(df_f)}

C12_SeriesAscendingDailyComplete ==
  pc \in {"aggregated", "done"} =>
    /\ Len(vehicle_agg) >= 1
    /\ \A i \in 1..Len(vehicle_agg) : \A k \in 1..Len(vehicle_agg) :
         i < k => vehicle_agg[i].t < vehicle_agg[k].t
    /\ Len(vehicle_daily) = SetMax(FilteredDays) - SetMin(FilteredDays) + 1
    /\ \A k \in 1..Len(vehicle_daily) :
         /\ vehicle_daily[k].t = SetMin(FilteredDays) + k - 1
         /\ vehicle_daily[k].t \notin FilteredDays => vehicle_daily[k].v = 0
    /\ agg = "Daily" => vehicle_agg = vehicle_daily

\* rows two days apart: the day between them is in the daily series with 0
C12_Witness ==
  /\ pc = "done"
  /\ Len(vehicle_daily) = 3
  /\ vehicle_daily[2].v = 0
  /\ vehicle_daily[1].v > 0
  /\ vehicle_daily[3].v > 0

\* C13: aggregation conserves the total: for a non-empty filtered view and each
\* granularity the values of vehicle_agg add up to the vehicle_count of the rows
\* of the filtered view.
C13_AggregationConservesTotal ==
  pc \in {"aggregated", "done"} =>
    SumSeq([k \in 1..Len(vehicle_agg) |-> vehicle_agg[k].v])
      = SumSeq([i \in 1..Len(df_f) |-> df_f[i].vehicle_count])

\* a weekly or monthly series of two periods, one row at 23:59:59 of the last day
C13_Witness ==
  /\ pc = "done"
  /\ agg # "Daily"
  /\ Len(df_f) = 2
  /\ Len(vehicle_agg) = 2
  /\ \E i \in 1..Len(df_f) : df_f[i].date_time = LastSecondOfLastDay

====
